---- MODULE Spec2Model ----
(***************************************************************************)
(* Model of src/app.js, the dungeon-escape text adventure.                 *)
(*                                                                         *)
(* The script keeps its whole state in three closure variables             *)
(* (gameRunning, player, rooms) and in the page (the class lists of the    *)
(* start button and of the input area, the paragraphs of the console).     *)
(* Two handlers are registered: startGame on the start button and          *)
(* processCommand on the submit button and on Enter in the text box.       *)
(* Neither handler tests gameRunning or any class list, so both are        *)
(* enabled in every state of the model.  A handler that reads a property   *)
(* of undefined ends there by an uncaught TypeError: thrown records that   *)
(* the last handler ended so.                                              *)
(*                                                                         *)
(* A JavaScript string is a sequence of atoms.  An atom is either a        *)
(* whitespace character (" " or the tab) or a maximal run of other         *)
(* characters (a word, or a whole message of the program).  trim,          *)
(* toLowerCase, split(' ') and join(' ') are computed on that sequence.    *)
(***************************************************************************)
EXTENDS Integers, Sequences, FiniteSets, TLC

VARIABLES gameRunning, player, rooms, startButtonHidden, inputAreaHidden, printed,
          thrown

vars == <<gameRunning, player, rooms, startButtonHidden, inputAreaHidden, printed,
          thrown>>

(***************************************************************************)
(* Strings                                                                 *)
(***************************************************************************)
Space == " "
Tab == "\t"

\* the characters String.prototype.trim removes
WhiteSpace == {Space, Tab}

\* a string literal without whitespace
str(word) == <<word>>

\* the value of a missing array element or object property
undefined == <<"<undefined>">>

\* upper-case words the player may type, with their lower-case form
UpperWords == [TAKE |-> "take", KEY |-> "key", LOOK |-> "look"]

toLowerAtom(a) == IF a \in DOMAIN UpperWords THEN UpperWords[a] ELSE a

toLowerCase(s) == [i \in 1..Len(s) |-> toLowerAtom(s[i])]

RECURSIVE trimStart(_)
trimStart(s) ==
    IF s # <<>> /\ Head(s) \in WhiteSpace THEN trimStart(Tail(s)) ELSE s

RECURSIVE trimEnd(_)
trimEnd(s) ==
    IF s # <<>> /\ s[Len(s)] \in WhiteSpace
    THEN trimEnd(SubSeq(s, 1, Len(s) - 1))
    ELSE s

\* the call of trim left out
noTrim(s) == s

trim(s) == trimEnd(trimStart(s))

\* s.split(' '): the pieces between single spaces, empty pieces included
RECURSIVE split(_)
split(s) ==
    IF \A i \in 1..Len(s) : s[i] # Space
    THEN <<s>>
    ELSE LET i == CHOOSE k \in 1..Len(s) :
                      s[k] = Space /\ \A j \in 1..(k - 1) : s[j] # Space
         IN  <<SubSeq(s, 1, i - 1)>> \o split(SubSeq(s, i + 1, Len(s)))

\* parts.join(' ')
RECURSIVE join(_)
join(parts) ==
    IF parts = <<>> THEN <<>>
    ELSE IF Len(parts) = 1 THEN parts[1]
    ELSE parts[1] \o <<Space>> \o join(Tail(parts))

\* array.includes(x)
includes(array, x) == \E i \in 1..Len(array) : array[i] = x

\* array.filter(i => i !== x)
RECURSIVE filterNot(_, _)
filterNot(array, x) ==
    IF array = <<>> THEN <<>>
    ELSE IF Head(array) = x THEN filterNot(Tail(array), x)
    ELSE <<Head(array)>> \o filterNot(Tail(array), x)

(***************************************************************************)
(* Objects: a property read obj[k] finds the object's own property or,     *)
(* failing that, a property inherited from Object.prototype.  The command  *)
(* text is lower-cased, so the only inherited names a player can type are  *)
(* constructor and __proto__.                                              *)
(***************************************************************************)
ObjectPrototype ==
    (str("constructor") :> str("function Object() { [native code] }")) @@
    (str("__proto__") :> str("[object Object]"))

\* the test if (obj[k]): every own and every inherited value is truthy
Has(obj, k) == k \in DOMAIN obj \/ k \in DOMAIN ObjectPrototype

\* obj[k], for a k that passed the test
Get(obj, k) == IF k \in DOMAIN obj THEN obj[k] ELSE ObjectPrototype[k]

\* delete obj[k]
Delete(obj, k) == [x \in DOMAIN obj \ {k} |-> obj[x]]

\* an object without own properties
EmptyObject == [x \in {} |-> undefined]

(***************************************************************************)
(* Game data                                                               *)
(***************************************************************************)
RoomIds == {"cell", "hallway", "armory"}

rooms0 ==
    [cell |->
        [name |-> str("Dank Cell"),
         description |-> str("You are in a cold, stone cell. A single torch flickers on the wall, casting long shadows. The iron door to the north is barred shut. There is a pile of straw in the corner and a loose stone on the floor."),
         exits |-> (str("north") :> "hallway"),
         items |-> <<str("stone")>>,
         blockedExits |-> (str("north") :> str("The door is barred from the other side."))],
     hallway |->
        [name |-> str("Dim Hallway"),
         description |-> str("You stand in a narrow hallway. The cell door is to the south. To the east is a heavy wooden door with a small, rusty lock. To the west, the hallway ends in a pile of rubble."),
         exits |-> (str("south") :> "cell") @@ (str("east") :> "armory"),
         items |-> <<>>,
         blockedExits |-> (str("east") :> str("The door is locked."))],
     armory |->
        [name |-> str("Dusty Armory"),
         description |-> str("This was once an armory. Racks that held weapons are now empty, save for a single, gleaming sword lying on a stone pedestal."),
         exits |-> (str("west") :> "hallway"),
         items |-> <<str("sword")>>,
         blockedExits |-> EmptyObject]]

player0 == [currentRoom |-> "cell", inventory |-> <<>>]

items ==
    (str("stone") :>
        [name |-> str("Loose Stone"),
         description |-> str("A fist-sized stone. You notice a small, rusty key hidden in the cavity beneath it."),
         canTake |-> FALSE,
         onExamine |-> TRUE]) @@
    (str("key") :>
        [name |-> str("Rusty Key"),
         description |-> str("A small, simple key. It looks like it might fit the lock on the armory door."),
         canTake |-> TRUE,
         onExamine |-> FALSE]) @@
    (str("sword") :>
        [name |-> str("Gleaming Sword"),
         description |-> str("A beautiful, sharp sword. It feels powerful in your hands. Perhaps you could break something with it?"),
         canTake |-> TRUE,
         onExamine |-> FALSE])

(***************************************************************************)
(* The state as one record, on which the functions of the script operate.  *)
(* printed holds the paragraphs the running handler has appended to the    *)
(* console so far.                                                         *)
(***************************************************************************)
State ==
    [gameRunning |-> gameRunning,
     player |-> player,
     rooms |-> rooms,
     startButtonHidden |-> startButtonHidden,
     inputAreaHidden |-> inputAreaHidden,
     printed |-> printed,
     thrown |-> thrown]

\* the state a handler starts from: nothing appended yet, nothing thrown
Entry == [State EXCEPT !.printed = <<>>, !.thrown = FALSE]

\* a property read on undefined: the handler stops with what it has done
throw(w) == [w EXCEPT !.thrown = TRUE]

\* items[name].canTake and items[name].onExamine, for a name that passes
\* Has(items, name): an object inherited from Object.prototype has neither
canTake(name) == name \in DOMAIN items /\ items[name].canTake

hasOnExamine(name) == name \in DOMAIN items /\ items[name].onExamine

\* what print shows for items[name].description: nothing for an inherited
\* object, whose description is undefined
descriptionOf(name) == IF name \in DOMAIN items THEN items[name].description ELSE <<>>

\* what a template shows for items[name].name: the constructor is the
\* function named Object, the prototype object has no name
nameOf(name) ==
    IF name \in DOMAIN items THEN items[name].name
    ELSE IF name = str("constructor") THEN str("Object")
    ELSE str("undefined")

(***************************************************************************)
(* Game functions.  Each takes the state and returns the state it leaves.  *)
(***************************************************************************)
print(w, text, className) ==
    [w EXCEPT !.printed = Append(@, [text |-> text, className |-> className])]

look(w) ==
    LET room == w.rooms[w.player.currentRoom]
        w1 == print(w, room.name, "text-cyan-400 text-lg")
    IN  print(w1, room.description, "")

startGame(w) ==
    LET w1 == [w EXCEPT !.gameRunning = TRUE,
                        !.startButtonHidden = TRUE,
                        !.inputAreaHidden = FALSE,
                        !.printed = <<>>]
        w2 == print(w1, str("Executing DungeonEscape.java..."), "text-yellow-400")
        w3 == print(w2, str("---"), "")
    IN  look(w3)

\* move with the test of blockedExits left out
moveThroughBlock(w, direction) ==
    LET room == w.rooms[w.player.currentRoom]
    IN  IF direction \in DOMAIN room.exits
        THEN look([w EXCEPT !.player.currentRoom = room.exits[direction]])
        ELSE print(w, str("You can't go that way."), "text-red-400")

\* move with the assignment of currentRoom ahead of the test of blockedExits
moveThenBlock(w, direction) ==
    LET room == w.rooms[w.player.currentRoom]
    IN  IF direction \in DOMAIN room.exits
        THEN LET w1 == [w EXCEPT !.player.currentRoom = room.exits[direction]]
             IN  IF Has(room.blockedExits, direction)
                 THEN print(w1, Get(room.blockedExits, direction), "text-yellow-400")
                 ELSE look(w1)
        ELSE print(w, str("You can't go that way."), "text-red-400")

move(w, direction) ==
    LET room == w.rooms[w.player.currentRoom]
    IN  IF Has(room.exits, direction)
        THEN IF Has(room.blockedExits, direction)
             THEN print(w, Get(room.blockedExits, direction), "text-yellow-400")
             ELSE look([w EXCEPT !.player.currentRoom = room.exits[direction]])
        ELSE print(w, str("You can't go that way."), "text-red-400")

\* take with the filter of room.items left out
takeKeepsItem(w, itemName) ==
    LET id == w.player.currentRoom
        room == w.rooms[id]
    IN  IF includes(room.items, itemName) /\ items[itemName].canTake
        THEN LET w1 == [w EXCEPT !.player.inventory = Append(@, itemName)]
             IN  print(w1, <<"You take the ">> \o items[itemName].name \o <<".">>, "")
        ELSE print(w, str("You can't take that."), "text-red-400")

\* take with the test of room.items left out
takeUnchecked(w, itemName) ==
    LET id == w.player.currentRoom
    IN  IF ~Has(items, itemName) THEN throw(w)
        ELSE IF canTake(itemName)
        THEN LET w1 == [w EXCEPT !.player.inventory = Append(@, itemName)]
                 w2 == [w1 EXCEPT !.rooms[id].items = filterNot(@, itemName)]
             IN  print(w2, <<"You take the ">> \o nameOf(itemName) \o <<".">>, "")
        ELSE print(w, str("You can't take that."), "text-red-400")

take(w, itemName) ==
    LET id == w.player.currentRoom
        room == w.rooms[id]
    IN  IF includes(room.items, itemName) /\ ~Has(items, itemName) THEN throw(w)
        ELSE IF includes(room.items, itemName) /\ canTake(itemName)
        THEN LET w1 == [w EXCEPT !.player.inventory = Append(@, itemName)]
                 w2 == [w1 EXCEPT !.rooms[id].items = filterNot(@, itemName)]
             IN  print(w2, <<"You take the ">> \o nameOf(itemName) \o <<".">>, "")
        ELSE print(w, str("You can't take that."), "text-red-400")

\* onExamine with the test of the inventory left out
stoneOnExamineRoomOnly(w) ==
    IF ~includes(w.rooms.cell.items, str("key"))
    THEN [state |-> [w EXCEPT !.rooms.cell.items = Append(@, str("key"))],
          result |-> str("You lift the stone and find a small, rusty key!")]
    ELSE [state |-> w,
          result |-> str("It's just a stone. You already found the key that was under it.")]

\* items.stone.onExamine: the state it leaves and the text it returns
stoneOnExamine(w) ==
    IF ~includes(w.player.inventory, str("key"))
       /\ ~includes(w.rooms.cell.items, str("key"))
    THEN [state |-> [w EXCEPT !.rooms.cell.items = Append(@, str("key"))],
          result |-> str("You lift the stone and find a small, rusty key!")]
    ELSE [state |-> w,
          result |-> str("It's just a stone. You already found the key that was under it.")]

examine(w, itemName) ==
    LET room == w.rooms[w.player.currentRoom]
    IN  IF includes(room.items, itemName) \/ includes(w.player.inventory, itemName)
        THEN IF ~Has(items, itemName) THEN throw(w)
             ELSE LET w1 == print(w, descriptionOf(itemName), "")
                  IN  IF hasOnExamine(itemName)
                      THEN LET r == stoneOnExamine(w1)
                           IN  print(r.state, r.result, "text-green-400")
                      ELSE w1
        ELSE print(w, str("You don't see that here."), "text-red-400")

\* player.inventory.forEach(itemName => print(`- ${items[itemName].name}`))
RECURSIVE printItems(_, _)
printItems(w, names) ==
    IF names = <<>> THEN w
    ELSE IF ~Has(items, Head(names)) THEN throw(w)
    ELSE printItems(print(w, <<"- ">> \o nameOf(Head(names)), ""), Tail(names))

showInventory(w) ==
    IF Len(w.player.inventory) = 0
    THEN print(w, str("You are not carrying anything."), "")
    ELSE printItems(print(w, str("You are carrying:"), ""), w.player.inventory)

\* use with the tests of player.currentRoom left out
useAnyRoom(w, command) ==
    LET parts == split(command)
        itemToUse == parts[1]
        target == IF Len(parts) >= 3 THEN parts[3] ELSE undefined
    IN  IF ~includes(w.player.inventory, itemToUse)
        THEN print(w, str("You don't have that."), "text-red-400")
        ELSE IF itemToUse = str("key") /\ target = str("door")
        THEN LET w1 == [w EXCEPT !.rooms.hallway.blockedExits = Delete(@, str("east"))]
             IN  print(w1, str("The key fits! You unlock the armory door with a loud *click*."),
                       "text-green-400")
        ELSE IF itemToUse = str("sword") /\ target = str("door")
        THEN LET w1 == [w EXCEPT !.rooms.cell.blockedExits = Delete(@, str("north"))]
                 w2 == print(w1, str("You swing the sword with all your might and shatter the wooden bar on the other side of the door!"),
                             "text-green-400")
                 w3 == print(w2, str("You have escaped the dungeon!"),
                             "text-yellow-400 font-bold text-lg")
             IN  [w3 EXCEPT !.gameRunning = FALSE, !.inputAreaHidden = TRUE]
        ELSE print(w, str("You can't use that like that."), "text-red-400")

\* use with the test of the inventory left out
useWithoutHolding(w, command) ==
    LET parts == split(command)
        itemToUse == parts[1]
        target == IF Len(parts) >= 3 THEN parts[3] ELSE undefined
    IN  IF itemToUse = str("key") /\ target = str("door")
           /\ w.player.currentRoom = "hallway"
        THEN LET w1 == [w EXCEPT !.rooms.hallway.blockedExits = Delete(@, str("east"))]
             IN  print(w1, str("The key fits! You unlock the armory door with a loud *click*."),
                       "text-green-400")
        ELSE IF itemToUse = str("sword") /\ target = str("door")
                /\ w.player.currentRoom = "cell"
        THEN LET w1 == [w EXCEPT !.rooms.cell.blockedExits = Delete(@, str("north"))]
                 w2 == print(w1, str("You swing the sword with all your might and shatter the wooden bar on the other side of the door!"),
                             "text-green-400")
                 w3 == print(w2, str("You have escaped the dungeon!"),
                             "text-yellow-400 font-bold text-lg")
             IN  [w3 EXCEPT !.gameRunning = FALSE, !.inputAreaHidden = TRUE]
        ELSE print(w, str("You can't use that like that."), "text-red-400")

\* use with the key rule deleting the exit in place of its blocking entry
useDeletesExit(w, command) ==
    LET parts == split(command)
        itemToUse == parts[1]
        target == IF Len(parts) >= 3 THEN parts[3] ELSE undefined
    IN  IF ~includes(w.player.inventory, itemToUse)
        THEN print(w, str("You don't have that."), "text-red-400")
        ELSE IF itemToUse = str("key") /\ target = str("door")
                /\ w.player.currentRoom = "hallway"
        THEN LET w1 == [w EXCEPT !.rooms.hallway.exits = Delete(@, str("east"))]
             IN  print(w1, str("The key fits! You unlock the armory door with a loud *click*."),
                       "text-green-400")
        ELSE IF itemToUse = str("sword") /\ target = str("door")
                /\ w.player.currentRoom = "cell"
        THEN LET w1 == [w EXCEPT !.rooms.cell.blockedExits = Delete(@, str("north"))]
                 w2 == print(w1, str("You swing the sword with all your might and shatter the wooden bar on the other side of the door!"),
                             "text-green-400")
                 w3 == print(w2, str("You have escaped the dungeon!"),
                             "text-yellow-400 font-bold text-lg")
             IN  [w3 EXCEPT !.gameRunning = FALSE, !.inputAreaHidden = TRUE]
        ELSE print(w, str("You can't use that like that."), "text-red-400")

\* use with the target read from the second token
useSecondToken(w, command) ==
    LET parts == split(command)
        itemToUse == parts[1]
        target == IF Len(parts) >= 2 THEN parts[2] ELSE undefined
    IN  IF ~includes(w.player.inventory, itemToUse)
        THEN print(w, str("You don't have that."), "text-red-400")
        ELSE IF itemToUse = str("key") /\ target = str("door")
                /\ w.player.currentRoom = "hallway"
        THEN LET w1 == [w EXCEPT !.rooms.hallway.blockedExits = Delete(@, str("east"))]
             IN  print(w1, str("The key fits! You unlock the armory door with a loud *click*."),
                       "text-green-400")
        ELSE IF itemToUse = str("sword") /\ target = str("door")
                /\ w.player.currentRoom = "cell"
        THEN LET w1 == [w EXCEPT !.rooms.cell.blockedExits = Delete(@, str("north"))]
                 w2 == print(w1, str("You swing the sword with all your might and shatter the wooden bar on the other side of the door!"),
                             "text-green-400")
                 w3 == print(w2, str("You have escaped the dungeon!"),
                             "text-yellow-400 font-bold text-lg")
             IN  [w3 EXCEPT !.gameRunning = FALSE, !.inputAreaHidden = TRUE]
        ELSE print(w, str("You can't use that like that."), "text-red-400")

use(w, command) ==
    LET parts == split(command)
        itemToUse == parts[1]
        target == IF Len(parts) >= 3 THEN parts[3] ELSE undefined
    IN  IF ~includes(w.player.inventory, itemToUse)
        THEN print(w, str("You don't have that."), "text-red-400")
        ELSE IF itemToUse = str("key") /\ target = str("door")
                /\ w.player.currentRoom = "hallway"
        THEN LET w1 == [w EXCEPT !.rooms.hallway.blockedExits = Delete(@, str("east"))]
             IN  print(w1, str("The key fits! You unlock the armory door with a loud *click*."),
                       "text-green-400")
        ELSE IF itemToUse = str("sword") /\ target = str("door")
                /\ w.player.currentRoom = "cell"
        THEN LET w1 == [w EXCEPT !.rooms.cell.blockedExits = Delete(@, str("north"))]
                 w2 == print(w1, str("You swing the sword with all your might and shatter the wooden bar on the other side of the door!"),
                             "text-green-400")
                 w3 == print(w2, str("You have escaped the dungeon!"),
                             "text-yellow-400 font-bold text-lg")
             IN  [w3 EXCEPT !.gameRunning = FALSE, !.inputAreaHidden = TRUE]
        ELSE print(w, str("You can't use that like that."), "text-red-400")

\* value is the content of the text box when the handler runs
processCommand(w, value) ==
    LET commandText == toLowerCase(trim(value))
    IN  IF commandText = <<>> THEN w
        ELSE LET w1 == print(w, <<"> ">> \o commandText, "text-gray-500")
                 tokens == split(commandText)
                 verb == Head(tokens)
                 nounParts == Tail(tokens)
                 noun == join(nounParts)
             IN  CASE verb \in {str("look"), str("l")} -> look(w1)
                   [] verb \in {str("go"), str("move")} -> move(w1, noun)
                   [] verb \in {str("take"), str("get")} -> take(w1, noun)
                   [] verb \in {str("examine"), str("x")} -> examine(w1, noun)
                   [] verb \in {str("inventory"), str("i")} -> showInventory(w1)
                   [] verb = str("use") -> use(w1, noun)
                   [] OTHER -> print(w1, str("I don't understand that command."),
                                     "text-red-400")

(***************************************************************************)
(* What the player can put in the text box                                 *)
(***************************************************************************)
Verbs == {"look", "l", "go", "move", "take", "get", "examine", "x",
          "inventory", "i", "use", "dance"}

Directions == {"north", "south", "east", "west", "up", "constructor", "__proto__"}

Nouns == {"stone", "key", "sword", "door"}

UseItems == {"key", "sword", "stone"}

Prepositions == {"on", "with"}

UseTargets == {"door", "stone"}

Inputs ==
    {<<v>> : v \in Verbs}
    \cup {<<v, Space, d>> : v \in {"go", "move"}, d \in Directions}
    \cup {<<v, Space, n>> : v \in {"take", "get", "examine", "x"}, n \in Nouns}
    \cup {<<"use", Space, i, Space, p, Space, t>> :
              i \in UseItems, p \in Prepositions, t \in UseTargets}
    \cup {<<"look", Space, "north">>, <<"dance", Space, "key">>,
          <<"i", Space, "key">>,
          <<"take", Space, "constructor">>, <<"examine", Space, "__proto__">>,
          <<"use", Space, "key">>, <<"use", Space, "key", Space, "door">>,
          <<"use", Space, "sword", Space, "on">>,
          <<"use", Space, "key", Space, "on", Space, "door", Space, "now">>,
          <<"use", Space, "key", Space, Space, "on", Space, "door">>,
          <<>>, <<Space>>, <<Tab>>, <<Space, Tab, Space>>,
          <<Space, "look", Space>>, <<Tab, "i">>,
          <<"take", Space, Space, "key">>, <<"take", Tab, "key">>,
          <<"take", Space, "key", Space>>,
          <<"TAKE", Space, "KEY">>, <<"LOOK">>,
          <<"go", Space, Space, "north">>}

(***************************************************************************)
(* The program                                                             *)
(***************************************************************************)
\* The page as loaded.  The markup is not part of the script: the class
\* lists of the two elements start in any of their combinations.
Init ==
    /\ gameRunning = FALSE
    /\ player = player0
    /\ rooms = rooms0
    /\ startButtonHidden \in BOOLEAN
    /\ inputAreaHidden \in BOOLEAN
    /\ printed = <<>>
    /\ thrown = FALSE

\* click on the start button
StartGame ==
    LET w == startGame(Entry)
    IN  /\ gameRunning' = w.gameRunning
        /\ player' = w.player
        /\ rooms' = w.rooms
        /\ startButtonHidden' = w.startButtonHidden
        /\ inputAreaHidden' = w.inputAreaHidden
        /\ printed' = w.printed
        /\ thrown' = w.thrown

\* click on the submit button, or Enter released in the text box
ProcessCommand ==
    \E value \in Inputs :
        LET w == processCommand(Entry, value)
        IN  /\ gameRunning' = w.gameRunning
            /\ player' = w.player
            /\ rooms' = w.rooms
            /\ startButtonHidden' = w.startButtonHidden
            /\ inputAreaHidden' = w.inputAreaHidden
            /\ printed' = w.printed
            /\ thrown' = w.thrown

Next == StartGame \/ ProcessCommand

Spec == Init /\ [][Next]_vars

(***************************************************************************)
(* The rules on every placement of the data model.  With the shipped map   *)
(* the player never leaves the cell (see C1), so the rules of the hallway, *)
(* of the armory and of the sword are never exercised from Init.  SpecAny  *)
(* runs the same handlers from every state the mutators of the script can  *)
(* build: the player in any room, the key hidden, in the cell or held, the *)
(* sword in the armory or held, each of the two doors blocked or open, the *)
(* session idle or active and the page showing the input area when active. *)
(***************************************************************************)
Inventories ==
    {<<>>, <<str("key")>>, <<str("sword")>>,
     <<str("key"), str("sword")>>, <<str("sword"), str("key")>>}

Placement(inventory, revealed, barred, locked) ==
    [rooms0 EXCEPT
        !.cell.items = IF revealed /\ ~includes(inventory, str("key"))
                       THEN <<str("stone"), str("key")>> ELSE @,
        !.armory.items = IF includes(inventory, str("sword")) THEN <<>> ELSE @,
        !.cell.blockedExits = IF barred THEN @ ELSE EmptyObject,
        !.hallway.blockedExits = IF locked THEN @ ELSE EmptyObject]

InitAny ==
    /\ gameRunning \in BOOLEAN
    /\ \E id \in RoomIds, inventory \in Inventories :
          player = [currentRoom |-> id, inventory |-> inventory]
          /\ \E revealed \in BOOLEAN, barred \in BOOLEAN, locked \in BOOLEAN :
                rooms = Placement(inventory, revealed, barred, locked)
    /\ startButtonHidden = gameRunning
    /\ inputAreaHidden = ~gameRunning
    /\ printed = <<>>
    /\ thrown = FALSE

SpecAny == InitAny /\ [][Next]_vars

(***************************************************************************)
(* Vocabulary of the properties                                            *)
(***************************************************************************)
north == str("north")
east == str("east")
key == str("key")
sword == str("sword")
stone == str("stone")
door == str("door")

\* the texts of the paragraphs the last handler appended
Texts == [i \in 1..Len(printed) |-> printed[i].text]

\* the last handler was startGame
JustStarted == printed # <<>> /\ printed[1].text = str("Executing DungeonEscape.java...")

\* the last handler was processCommand, on this command text
Echoed(commandText) == printed # <<>> /\ printed[1].text = <<"> ">> \o commandText

\* player, rooms and session state are the same in w and t
SameGame(w, t) ==
    w.player = t.player /\ w.rooms = t.rooms /\ w.gameRunning = t.gameRunning

\* the states a sequence of commands leads to from a state of S
Forget(w) == [w EXCEPT !.printed = <<>>, !.thrown = FALSE]

RECURSIVE Reach(_)
Reach(S) ==
    LET T == S \cup {Forget(processCommand(w, value)) : w \in S, value \in Inputs}
    IN  IF T = S THEN S ELSE Reach(T)

\* a session just started on the initial placement
FreshSession ==
    /\ JustStarted
    /\ gameRunning
    /\ player = player0
    /\ north \in DOMAIN rooms.cell.blockedExits
    /\ east \in DOMAIN rooms.hallway.blockedExits

(***************************************************************************)
(* C1: from a freshly started session some finite sequence of commands     *)
(* leads to a state where the cell's north exit is unblocked and the       *)
(* session is inactive (the win is reachable).                             *)
(* The script refutes it: the sword lies behind the door it has to open.   *)
(***************************************************************************)
C1_WinReachable ==
    FreshSession =>
        \E t \in Reach({Entry}) :
            ~t.gameRunning /\ north \notin DOMAIN t.rooms.cell.blockedExits

\* what the script does instead: the player never leaves the cell
PlayerStaysInCell == player.currentRoom = "cell" /\ rooms.cell.blockedExits = rooms0.cell.blockedExits

(***************************************************************************)
(* C2: from a freshly started session some sequence of commands brings the *)
(* player, holding the key, into the hallway, where `use key on door`      *)
(* unblocks the hallway's east exit and a following `move east` puts the   *)
(* player in the armory.                                                   *)
(***************************************************************************)
C2_ArmoryReachable ==
    FreshSession =>
        \E u \in Reach({Entry}) :
            /\ u.player.currentRoom = "hallway"
            /\ includes(u.player.inventory, key)
            /\ LET v == processCommand(u, <<"use", Space, "key", Space, "on", Space, "door">>)
                   x == processCommand(Forget(v), <<"move", Space, "east">>)
               IN  /\ east \notin DOMAIN v.rooms.hallway.blockedExits
                   /\ x.player.currentRoom = "armory"

(***************************************************************************)
(* C3: every session start leaves the world in its initial data: player in *)
(* the cell, inventory empty, cell items = {stone}, hallway items = {},    *)
(* armory items = {sword}, cell north and hallway east blocked.            *)
(***************************************************************************)
C3_StartResetsWorld ==
    JustStarted =>
        /\ gameRunning
        /\ player = player0
        /\ \A id \in RoomIds :
              /\ rooms[id].items = rooms0[id].items
              /\ rooms[id].blockedExits = rooms0[id].blockedExits

(***************************************************************************)
(* C4: a command submitted while the session is idle changes neither the   *)
(* player's room, the inventory, any room's items, any blocked exit nor    *)
(* the session state, and produces no output.  A step that starts and ends *)
(* idle is a command step: startGame leaves the session active.            *)
(***************************************************************************)
C4_IdleIgnoresCommands ==
    [][(~gameRunning /\ ~gameRunning') =>
           (player' = player /\ rooms' = rooms /\ printed' = <<>>)]_vars

\* the command `use <item> <preposition> <target>`
UsePhrase(item, preposition, target) ==
    <<"use", Space, item, Space, preposition, Space, target>>

\* the two rules of use
UseRule(item, target, id) ==
    \/ item = "key" /\ target = "door" /\ id = "hallway"
    \/ item = "sword" /\ target = "door" /\ id = "cell"

\* the words of a command: verb, then the tokens of the noun phrase
Words(value) == split(toLowerCase(trim(value)))

Line(text, className) == [text |-> text, className |-> className]

CantTake == Line(str("You can't take that."), "text-red-400")
CantUse == Line(str("You can't use that like that."), "text-red-400")
AlreadyFound ==
    Line(str("It's just a stone. You already found the key that was under it."),
         "text-green-400")
Escaped == Line(str("You have escaped the dungeon!"), "text-yellow-400 font-bold text-lg")

\* how often x occurs in array
Count(array, x) == Cardinality({i \in 1..Len(array) : array[i] = x})

(***************************************************************************)
(* C5: the session goes from active to inactive only on the successful     *)
(* escape: a step that takes the session from active to inactive has      *)
(* processed `use sword .. door` (the echoed command text says so), with   *)
(* the sword in the inventory and the player in the cell; no other command *)
(* and no start ends the session.                                          *)
(***************************************************************************)
C5_OnlyEscapeEndsSession ==
    [][(gameRunning /\ ~gameRunning') =>
           /\ printed' # <<>>
           /\ LET words == split(Tail(printed'[1].text))
              IN  /\ Len(words) >= 4
                  /\ words[1] = str("use")
                  /\ words[2] = sword
                  /\ words[4] = door
           /\ includes(player.inventory, sword)
           /\ player.currentRoom = "cell"]_vars

\* the escape has ended a session: the start button is hidden, so the
\* session was active, and only a step from active to inactive leaves it idle
C5_Witness ==
    /\ ~gameRunning
    /\ startButtonHidden
    /\ Echoed(<<"use", Space, "sword", Space, "on", Space, "door">>)
    /\ Len(printed) = 3 /\ printed[3] = Escaped
    /\ north \notin DOMAIN rooms.cell.blockedExits
    /\ includes(player.inventory, sword)
    /\ player.currentRoom = "cell"

(***************************************************************************)
(* C6: for every direction with an entry in the current room's             *)
(* blockedExits, `move <direction>` emits the blocking message and leaves  *)
(* player location, inventory, room items, blocked exits and session state *)
(* unchanged.                                                              *)
(***************************************************************************)
C6_BlockedMoveStays ==
    \A direction \in DOMAIN rooms[player.currentRoom].blockedExits :
        \A verb \in {"go", "move"} :
            LET t == processCommand(Entry, <<verb, Space>> \o direction)
            IN  /\ SameGame(State, t)
                /\ Len(t.printed) = 2
                /\ t.printed[2] =
                       Line(rooms[player.currentRoom].blockedExits[direction],
                            "text-yellow-400")

\* `move north` was just refused at the barred door of the cell
C6_Witness ==
    /\ Echoed(<<"move", Space, "north">>)
    /\ Len(printed) = 2
    /\ printed[2].text = str("The door is barred from the other side.")
    /\ player.currentRoom = "cell"
    /\ north \in DOMAIN rooms.cell.blockedExits

(***************************************************************************)
(* C7: take(noun) succeeds exactly when noun is in the current room's      *)
(* items and takeable; then the item leaves the room's items and is        *)
(* appended once at the tail of the inventory.  In every other case it     *)
(* emits the one failure message and changes nothing; taking the same item *)
(* a second time fails.                                                    *)
(***************************************************************************)
TakeNouns == {stone, key, sword, door, <<>>, <<Space, "key">>, str("constructor")}

C7_TakeContract ==
    \A noun \in TakeNouns :
        LET id == player.currentRoom
            t == take(Entry, noun)
            again == take(Forget(t), noun)
        IN  IF includes(rooms[id].items, noun) /\ noun \in DOMAIN items
               /\ items[noun].canTake
            THEN /\ t.player = [player EXCEPT !.inventory = Append(@, noun)]
                 /\ t.rooms = [rooms EXCEPT ![id].items =
                                   SelectSeq(@, LAMBDA i : i # noun)]
                 /\ ~includes(t.rooms[id].items, noun)
                 /\ Count(t.player.inventory, noun) = 1
                 /\ t.gameRunning = gameRunning
                 /\ t.printed = <<Line(<<"You take the ">> \o items[noun].name \o <<".">>, "")>>
                 /\ SameGame(t, again)
                 /\ again.printed = <<CantTake>>
            ELSE /\ SameGame(State, t)
                 /\ t.printed = <<CantTake>>

\* the key was just taken from the cell
C7_Witness ==
    /\ Echoed(<<"take", Space, "key">>)
    /\ Len(printed) = 2
    /\ printed[2].text = <<"You take the ", "Rusty Key", ".">>
    /\ player.inventory = <<key>>
    /\ rooms.cell.items = <<stone>>

(***************************************************************************)
(* C8: every item identifier is in at most one location: over the items of *)
(* the three rooms and the inventory together it occurs at most once.      *)
(***************************************************************************)
C8_ItemInOnePlace ==
    \A x \in DOMAIN items :
        Count(rooms.cell.items, x) + Count(rooms.hallway.items, x)
            + Count(rooms.armory.items, x) + Count(player.inventory, x) <= 1

\* the stone was examined again with the key already in the inventory
C8_Witness ==
    /\ Echoed(<<"examine", Space, "stone">>)
    /\ Len(printed) = 3 /\ printed[3] = AlreadyFound
    /\ includes(player.inventory, key)

(***************************************************************************)
(* C9: the stone reveals the key exactly once per session: a session       *)
(* starts with the key neither in the cell's items nor in the inventory;   *)
(* `examine stone` with the key in neither place adds it to the cell's     *)
(* items; every other `examine stone` leaves the state unchanged and       *)
(* reports the already-found message.                                      *)
(***************************************************************************)
ExamineStoneReveals ==
    player.currentRoom = "cell" =>
        LET t == examine(Entry, stone)
        IN  IF ~includes(rooms.cell.items, key) /\ ~includes(player.inventory, key)
            THEN /\ t.rooms = [rooms EXCEPT !.cell.items = Append(@, key)]
                 /\ t.player = player /\ t.gameRunning = gameRunning
            ELSE /\ SameGame(State, t)
                 /\ Len(t.printed) = 2 /\ t.printed[2] = AlreadyFound

C9_KeyRevealedOncePerSession ==
    /\ JustStarted =>
           ~includes(rooms.cell.items, key) /\ ~includes(player.inventory, key)
    /\ ExamineStoneReveals

(***************************************************************************)
(* C10, as claimed: a step that processes `use <item> .. <target>` where   *)
(* (item, target, current room) is none of the two rules prints "You can't *)
(* use that like that." and leaves blocked exits, inventory, room items,   *)
(* player room and session state unchanged.                                *)
(***************************************************************************)
C10_OtherUseIsInvalid ==
    [][\A item \in UseItems, preposition \in Prepositions, target \in UseTargets :
           (/\ printed' # <<>>
            /\ printed'[1].text = <<"> ">> \o UsePhrase(item, preposition, target)
            /\ ~UseRule(item, target, player.currentRoom)) =>
               /\ player' = player /\ rooms' = rooms /\ gameRunning' = gameRunning
               /\ Len(printed') = 2 /\ printed'[2] = CantUse]_vars

(***************************************************************************)
(* C10, amended: a step that processes `use <item> .. <target>` with the   *)
(* item held in the inventory, where (item, target, current room) is none  *)
(* of the two rules, prints "You can't use that like that." and leaves     *)
(* blocked exits, inventory, room items, player room and session state     *)
(* unchanged.                                                              *)
(***************************************************************************)
C10_HeldOtherUseIsInvalid ==
    [][\A item \in UseItems, preposition \in Prepositions, target \in UseTargets :
           (/\ printed' # <<>>
            /\ printed'[1].text = <<"> ">> \o UsePhrase(item, preposition, target)
            /\ includes(player.inventory, str(item))
            /\ ~UseRule(item, target, player.currentRoom)) =>
               /\ player' = player /\ rooms' = rooms /\ gameRunning' = gameRunning
               /\ Len(printed') = 2 /\ printed'[2] = CantUse]_vars

\* the key was just tried on the door of the cell
C10_Witness ==
    /\ Echoed(<<"use", Space, "key", Space, "on", Space, "door">>)
    /\ Len(printed) = 2 /\ printed[2] = CantUse
    /\ includes(player.inventory, key)
    /\ player.currentRoom = "cell"
    /\ east \in DOMAIN rooms.hallway.blockedExits

NotHeld == Line(str("You don't have that."), "text-red-400")

\* use phrases by their first token: nothing, or a word, followed by a rest
UseHeads == {<<>>, key, sword, stone, door}

UseRests ==
    {<<>>, <<Space, "on", Space, "door">>, <<Space, "with", Space, "door">>,
     <<Space, "door">>, <<Space, "on", Space, "stone">>}

(***************************************************************************)
(* C11: whenever the first token of the use phrase is not in the           *)
(* inventory (an empty phrase and an item lying in the room included),     *)
(* use prints "You don't have that." and changes nothing, even if target   *)
(* and current room match a rule.                                          *)
(***************************************************************************)
C11_UseRequiresHeldItem ==
    \A head \in UseHeads, rest \in UseRests :
        ~includes(player.inventory, head) =>
            LET t == use(Entry, head \o rest)
            IN  /\ SameGame(State, t)
                /\ t.printed = <<NotHeld>>

\* `use sword on door` was refused in the cell, where the rule of the sword
\* applies, with the key lying in the cell and tried as well
C11_Witness ==
    /\ Echoed(<<"use", Space, "sword", Space, "on", Space, "door">>)
    /\ Len(printed) = 2 /\ printed[2] = NotHeld
    /\ player.currentRoom = "cell"
    /\ ~includes(player.inventory, sword)
    /\ includes(rooms.cell.items, key)
    /\ north \in DOMAIN rooms.cell.blockedExits

NotUnderstood == Line(str("I don't understand that command."), "text-red-400")
CantGo == Line(str("You can't go that way."), "text-red-400")
NotSeen == Line(str("You don't see that here."), "text-red-400")

\* the blocking messages of the map
BlockedLines ==
    UNION {{Line(rooms0[id].blockedExits[direction], "text-yellow-400") :
                direction \in DOMAIN rooms0[id].blockedExits} : id \in RoomIds}

\* the narrations of the failing outcomes: UnknownVerb, InvalidDirection,
\* BlockedExit, ItemNotPresent and ItemNotTakeable, a failed examine,
\* ItemNotHeld, InvalidUseCombination
FailureLines ==
    {NotUnderstood, CantGo, CantTake, NotSeen, NotHeld, CantUse} \cup BlockedLines

(***************************************************************************)
(* C12: every failing command leaves the state unchanged: a step whose     *)
(* command ends in the narration of a failure (unknown verb, invalid       *)
(* direction, blocked exit, item not present or not takeable, failed       *)
(* examine, item not held, invalid use combination) leaves player room,    *)
(* inventory, every room's items and blockedExits and the session state    *)
(* as they were.                                                           *)
(***************************************************************************)
C12_FailureChangesNothing ==
    [][(printed' # <<>> /\ printed'[Len(printed')] \in FailureLines) =>
           (player' = player /\ rooms' = rooms /\ gameRunning' = gameRunning)]_vars

\* an unknown verb was answered with the key already taken
C12_Witness ==
    /\ Echoed(<<"dance", Space, "key">>)
    /\ Len(printed) = 2 /\ printed[2] = NotUnderstood
    /\ player.inventory = <<key>>
    /\ rooms.cell.items = <<stone>>

\* the inputs that are empty or consist of whitespace only
BlankInputs == {value \in Inputs : \A i \in 1..Len(value) : value[i] \in WhiteSpace}

(***************************************************************************)
(* C13: an input that is empty or consists only of whitespace produces no  *)
(* output line at all, not even the echo line, and changes no state.       *)
(***************************************************************************)
C13_BlankInputIgnored ==
    \A value \in BlankInputs : processCommand(Entry, value) = Entry

\* a blank input was submitted in a running session with the key held: only
\* a blank input leaves nothing printed once a handler has run
C13_Witness ==
    /\ printed = <<>>
    /\ gameRunning
    /\ player.inventory = <<key>>

\* pairs of inputs with the same tokens: two spaces between two tokens in
\* the first, single spaces in the second
WhitespaceVariants ==
    {<<<<"take", Space, Space, "key">>, <<"take", Space, "key">>>>,
     <<<<"go", Space, Space, "north">>, <<"go", Space, "north">>>>,
     <<<<"use", Space, "key", Space, Space, "on", Space, "door">>,
       <<"use", Space, "key", Space, "on", Space, "door">>>>}

(***************************************************************************)
(* C14: the verb is the first whitespace-delimited token and the noun the  *)
(* remaining tokens rejoined with single spaces, so two inputs that differ *)
(* only in the amount of whitespace between tokens have the same outcome   *)
(* and state change: a step that processes `take  key` does what           *)
(* `take key` does from the same state, and prints the same outcome.       *)
(***************************************************************************)
C14_WhitespaceBetweenTokens ==
    [][\A pair \in WhitespaceVariants :
           (printed' # <<>> /\ printed'[1].text = <<"> ">> \o pair[1]) =>
               LET t == processCommand(Entry, pair[2])
               IN  /\ player' = t.player
                   /\ rooms' = t.rooms
                   /\ gameRunning' = t.gameRunning
                   /\ Tail(printed') = Tail(t.printed)]_vars

\* every identifier in a room's items or in the inventory is a defined item
OnlyDefinedItems ==
    /\ \A id \in RoomIds : \A i \in 1..Len(rooms[id].items) :
           rooms[id].items[i] \in DOMAIN items
    /\ \A i \in 1..Len(player.inventory) : player.inventory[i] \in DOMAIN items

(***************************************************************************)
(* C15: no input faults the engine: no handler ends by an uncaught error,  *)
(* every command that is not blank is answered by at least one line after  *)
(* its echo, and the rooms' items and the inventory hold only defined item *)
(* identifiers, which is what the item lookups of take, examine and        *)
(* inventory rely on.                                                      *)
(***************************************************************************)
C15_NoFault ==
    /\ ~thrown
    /\ OnlyDefinedItems
    /\ \A value \in Inputs :
           LET t == processCommand(Entry, value)
           IN  /\ ~t.thrown
               /\ value \notin BlankInputs => Len(t.printed) >= 2

\* `take door`, a noun that is no item, was answered by the failure message
C15_Witness ==
    /\ Echoed(<<"take", Space, "door">>)
    /\ Len(printed) = 2 /\ printed[2] = CantTake
    /\ ~thrown
    /\ player.inventory = <<key>>

(***************************************************************************)
(* C16: in every reachable state the player's current room is an existing  *)
(* room, every destination in every room's exits is an existing room, and  *)
(* every direction with an entry in a room's blockedExits is a key of that *)
(* room's exits.                                                           *)
(***************************************************************************)
C16_WorldStructure ==
    /\ player.currentRoom \in RoomIds
    /\ \A id \in RoomIds :
           /\ \A direction \in DOMAIN rooms[id].exits :
                  rooms[id].exits[direction] \in RoomIds
           /\ DOMAIN rooms[id].blockedExits \subseteq DOMAIN rooms[id].exits

\* the player has just gone east through the unlocked door into the armory
C16_Witness ==
    /\ Echoed(<<"move", Space, "east">>)
    /\ player.currentRoom = "armory"
    /\ Len(printed) = 3
    /\ printed[2].text = rooms0.armory.name
    /\ east \notin DOMAIN rooms.hallway.blockedExits
    /\ east \in DOMAIN rooms.hallway.exits

KeyFits ==
    Line(str("The key fits! You unlock the armory door with a loud *click*."),
         "text-green-400")

\* the step has processed `use <item> .. door` with the item held in room id
UseRuleStep(item, id) ==
    /\ printed' # <<>>
    /\ LET words == split(Tail(printed'[1].text))
       IN  /\ Len(words) >= 4
           /\ words[1] = str("use")
           /\ words[2] = item
           /\ words[4] = door
    /\ includes(player.inventory, item)
    /\ player.currentRoom = id

(***************************************************************************)
(* C17: unblocking is permanent: no step adds a blocking entry to any room *)
(* (a session start included, so the set of blocked exits only shrinks),   *)
(* and a step that removes one is one of the two use rules: the key on the *)
(* door in the hallway removes the hallway's east entry, the sword on the  *)
(* door in the cell removes the cell's north entry.                        *)
(***************************************************************************)
C17_UnblockingIsPermanent ==
    [][\A id \in RoomIds :
           /\ DOMAIN rooms'[id].blockedExits \subseteq DOMAIN rooms[id].blockedExits
           /\ \A direction \in DOMAIN rooms[id].blockedExits :
                  direction \notin DOMAIN rooms'[id].blockedExits =>
                      \/ id = "hallway" /\ direction = east /\ UseRuleStep(key, "hallway")
                      \/ id = "cell" /\ direction = north /\ UseRuleStep(sword, "cell")]_vars

\* the key has just been used on the door in the hallway: east is open
C17_Witness ==
    /\ Echoed(<<"use", Space, "key", Space, "on", Space, "door">>)
    /\ Len(printed) = 2 /\ printed[2] = KeyFits
    /\ player.currentRoom = "hallway"
    /\ includes(player.inventory, key)
    /\ east \notin DOMAIN rooms.hallway.blockedExits
    /\ north \in DOMAIN rooms.cell.blockedExits

\* the lines `inventory` is to print for the held items, in their order
InventoryReport(names) ==
    IF names = <<>>
    THEN <<Line(str("You are not carrying anything."), "")>>
    ELSE <<Line(str("You are carrying:"), "")>>
         \o [i \in 1..Len(names) |-> Line(<<"- ">> \o items[names[i]].name, "")]

\* the inventory holds no item twice, a command leaves it alone or is a
\* take that appends the item it names at the tail, and `inventory` lists
\* the held items one line each in their order and changes nothing
InventoryInTakeOrder ==
    /\ \A x \in DOMAIN items : Count(player.inventory, x) <= 1
    /\ \A value \in Inputs :
           LET t == processCommand(Entry, value)
               words == Words(value)
           IN  \/ t.player.inventory = player.inventory
               \/ /\ Head(words) \in {str("take"), str("get")}
                  /\ includes(rooms[player.currentRoom].items, join(Tail(words)))
                  /\ t.player.inventory = Append(player.inventory, join(Tail(words)))
    /\ \A verb \in {"inventory", "i"} :
           LET t == processCommand(Entry, <<verb>>)
           IN  /\ SameGame(State, t)
               /\ Tail(t.printed) = InventoryReport(player.inventory)

(***************************************************************************)
(* C18: the inventory is a duplicate-free sequence in take order: a        *)
(* successful take appends at the tail, no command removes or reorders a   *)
(* held item, and `inventory` lists exactly the held items, one line each, *)
(* in insertion order, without changing the state; on a session that has   *)
(* just started it reports that nothing is carried.                        *)
(* The script refutes the last part: a start keeps the inventory (C3).     *)
(***************************************************************************)
C18_InventoryContract ==
    /\ InventoryInTakeOrder
    /\ (JustStarted /\ gameRunning) =>
           Tail(processCommand(Entry, <<"inventory">>).printed)
               = InventoryReport(<<>>)

\* the step has processed `go <direction>` or `move <direction>`
MoveStep(direction) ==
    /\ printed' # <<>>
    /\ \E verb \in {"go", "move"} : printed'[1].text = <<"> ", verb, Space, direction>>

\* the step has changed the player's room to the destination and narrated
\* that room, and nothing else
OnlyLocationChanged(destination) ==
    /\ player' = [player EXCEPT !.currentRoom = destination]
    /\ rooms' = rooms
    /\ gameRunning' = gameRunning
    /\ Tail(printed') = <<Line(rooms[destination].name, "text-cyan-400 text-lg"),
                          Line(rooms[destination].description, "")>>

\* a move through an exit that has no blocking entry changes the location only
SuccessfulMoveFrame ==
    [][\A direction \in Directions :
           LET room == rooms[player.currentRoom]
           IN  (/\ MoveStep(direction)
                /\ str(direction) \in DOMAIN room.exits
                /\ str(direction) \notin DOMAIN room.blockedExits)
               => OnlyLocationChanged(room.exits[str(direction)])]_vars

(***************************************************************************)
(* C19: a move in a direction that is a key of the current room's exits    *)
(* and has no blockedExits entry sets the player's room to the destination *)
(* of that exit and narrates that room, name then description, and leaves  *)
(* inventory, room items, blocked exits and session state unchanged; a     *)
(* move in a direction that is not a key of the exits prints "You can't go *)
(* that way." and changes nothing.                                         *)
(* The script refutes the second part for a direction that names a         *)
(* property every object inherits.                                         *)
(***************************************************************************)
C19_MoveFrame ==
    [][\A direction \in Directions :
           LET room == rooms[player.currentRoom]
           IN  MoveStep(direction) =>
                   IF str(direction) \notin DOMAIN room.exits
                   THEN /\ player' = player
                        /\ rooms' = rooms
                        /\ gameRunning' = gameRunning
                        /\ Tail(printed') = <<CantGo>>
                   ELSE str(direction) \notin DOMAIN room.blockedExits
                            => OnlyLocationChanged(room.exits[str(direction)])]_vars

\* middle tokens of a use phrase: the prepositions, and words that are an
\* item or a target elsewhere
Middles == Prepositions \cup {"door", "key"}

(***************************************************************************)
(* C20: the middle token of a use phrase has no influence: in every state, *)
(* two use phrases `<item> <m1> <target>` and `<item> <m2> <target>` that  *)
(* differ only in their middle token print the same lines after the echo   *)
(* and lead to the same state.                                             *)
(***************************************************************************)
C20_MiddleTokenIgnored ==
    \A item \in UseItems \cup {"door"}, target \in UseTargets :
        \A m1 \in Middles, m2 \in Middles :
            LET t1 == processCommand(Entry, UsePhrase(item, m1, target))
                t2 == processCommand(Entry, UsePhrase(item, m2, target))
            IN  /\ SameGame(t1, t2)
                /\ t1.startButtonHidden = t2.startButtonHidden
                /\ t1.inputAreaHidden = t2.inputAreaHidden
                /\ t1.thrown = t2.thrown
                /\ Tail(t1.printed) = Tail(t2.printed)

\* `use key with door` has unlocked the armory door as `use key on door` does
C20_Witness ==
    /\ Echoed(<<"use", Space, "key", Space, "with", Space, "door">>)
    /\ Len(printed) = 2 /\ printed[2] = KeyFits
    /\ player.currentRoom = "hallway"
    /\ east \notin DOMAIN rooms.hallway.blockedExits

====
